---- MODULE Spec2Model ----
(***************************************************************************)
(* Model of src/index.js: simplifyDOM (clone the page body, remove the     *)
(* excluded tags, filter attributes, prune comments and blank text,        *)
(* serialize) and getElementSelector (launch, navigate, evaluate,          *)
(* truncate, ask the model for a selector, verify it on the live page,     *)
(* close the browser), followed by the main IIFE that logs the result.     *)
(*                                                                         *)
(* The DOM is a heap: a sequence of node records addressed by their index. *)
(* Strings are TLA+ strings; a character of s is SubSeq(s, i, i).          *)
(***************************************************************************)
EXTENDS Integers, Sequences, FiniteSets

\* ------------------------------------------------------------- bounds
\* Largest number of nodes below <body> in the enumerated documents.
MaxNodes == 3
\* The long documents serialize to MAX - LongSlack .. MAX + LongSlack + 7 characters.
LongSlack == 1

\* ---------------------------------------------------------- constants
\* simplifiedHTML.slice(0, 15000)
MAX == 15000
ELEMENT_NODE == 1
TEXT_NODE == 3
COMMENT_NODE == 8
\* "no node": the null of firstChild / nextSibling / parentNode
Null == 0
\* document.body of the page
body == 1

tagsToRemove == <<"script", "style", "noscript", "iframe", "svg", "link", "meta">>

allowedAttributes ==
    <<"id", "class", "name", "placeholder", "aria-label", "role", "type", "href", "title", "alt">>

Range(s) == {s[i] : i \in 1..Len(s)}

\* ------------------------------------------------------------ strings
CharAt(s, i) == SubSeq(s, i, i)

WhiteSpace == {" ", "\t", "\n", "\r"}

RECURSIVE TrimStart(_)
TrimStart(s) ==
    IF Len(s) > 0 /\ CharAt(s, 1) \in WhiteSpace
    THEN TrimStart(SubSeq(s, 2, Len(s)))
    ELSE s

RECURSIVE TrimEnd(_)
TrimEnd(s) ==
    IF Len(s) > 0 /\ CharAt(s, Len(s)) \in WhiteSpace
    THEN TrimEnd(SubSeq(s, 1, Len(s) - 1))
    ELSE s

\* String.prototype.trim
Trim(s) == TrimEnd(TrimStart(s))

Min(a, b) == IF a < b THEN a ELSE b
Max(a, b) == IF a > b THEN a ELSE b

\* slice with the end index taken as inclusive (off by one)
SliceInclusive(s, start, end) ==
    LET len == Len(s)
        from == IF start < 0 THEN Max(len + start, 0) ELSE Min(start, len)
        to == IF end < 0 THEN Max(len + end, 0) ELSE Min(end + 1, len)
    IN  IF from < to THEN SubSeq(s, from + 1, to) ELSE ""

\* String.prototype.slice(start, end)
Slice(s, start, end) ==
    LET len == Len(s)
        from == IF start < 0 THEN Max(len + start, 0) ELSE Min(start, len)
        to == IF end < 0 THEN Max(len + end, 0) ELSE Min(end, len)
    IN  IF from < to THEN SubSeq(s, from + 1, to) ELSE ""

\* n copies of s, by doubling
RECURSIVE Repeat(_, _)
Repeat(s, n) ==
    IF n = 0 THEN ""
    ELSE LET half == Repeat(s, n \div 2)
         IN  IF n % 2 = 0 THEN half \o half ELSE half \o half \o s

\* ---------------------------------------------------------------- DOM
Node(type, name, attrs, value, kids) ==
    [nodeType |-> type, nodeName |-> name, attributes |-> attrs,
     nodeValue |-> value, childNodes |-> kids]

Attr(n, v) == [name |-> n, value |-> v]
Element(name, attrs, kids) == Node(ELEMENT_NODE, name, attrs, "", kids)
Text(value) == Node(TEXT_NODE, "#text", <<>>, value, <<>>)
Comment(value) == Node(COMMENT_NODE, "#comment", <<>>, value, <<>>)

\* position of x in the sequence s, 0 when absent
IndexOf(s, x) ==
    IF \E i \in 1..Len(s) : s[i] = x
    THEN CHOOSE i \in 1..Len(s) : s[i] = x /\ \A j \in 1..(i - 1) : s[j] # x
    ELSE 0

RemoveAt(s, i) == SubSeq(s, 1, i - 1) \o SubSeq(s, i + 1, Len(s))

\* the descendants of the nodes `kids` and the nodes themselves, in document order
RECURSIVE Preorder(_, _)
Preorder(h, kids) ==
    IF kids = <<>> THEN <<>>
    ELSE <<Head(kids)>> \o Preorder(h, h[Head(kids)].childNodes) \o Preorder(h, Tail(kids))

Descendants(h, n) == Preorder(h, h[n].childNodes)

\* node.parentNode
ParentNode(h, n) ==
    IF \E p \in 1..Len(h) : IndexOf(h[p].childNodes, n) # 0
    THEN CHOOSE p \in 1..Len(h) : IndexOf(h[p].childNodes, n) # 0
    ELSE Null

\* node.firstChild
FirstChild(h, n) == IF h[n].childNodes = <<>> THEN Null ELSE Head(h[n].childNodes)

\* node.nextSibling
NextSibling(h, n) ==
    LET p == ParentNode(h, n)
    IN  IF p = Null THEN Null
        ELSE LET kids == h[p].childNodes
                 i == IndexOf(kids, n)
             IN  IF i < Len(kids) THEN kids[i + 1] ELSE Null

\* parent.removeChild(child) and child.remove(): the child leaves its parent's list
RemoveChild(h, p, child) ==
    [h EXCEPT ![p].childNodes = RemoveAt(@, IndexOf(@, child))]

Remove(h, n) ==
    LET p == ParentNode(h, n)
    IN  IF p = Null THEN h ELSE RemoveChild(h, p, n)

\* `const clone = document.body`: no copy is made
CloneNodeAlias(h, root) == [heap |-> h, node |-> root]

\* root.cloneNode(true): new nodes are appended to the heap, in document order
CloneNode(h, root) ==
    LET pre == <<root>> \o Descendants(h, root)
        copy(k) == [h[pre[k]] EXCEPT
                      !.childNodes = [j \in 1..Len(@) |-> Len(h) + IndexOf(pre, @[j])]]
    IN  [heap |-> h \o [k \in 1..Len(pre) |-> copy(k)], node |-> Len(h) + 1]

\* ------------------------------------------------------- simplifyDOM
\* `clone.children` filtered by tag: only the direct children are looked at
QueryChildren(h, root, tag) ==
    SelectSeq(h[root].childNodes,
              LAMBDA n : h[n].nodeType = ELEMENT_NODE /\ h[n].nodeName = tag)

\* root.querySelectorAll(tag): the matching descendants, a static list in document order
QuerySelectorAll(h, root, tag) ==
    SelectSeq(Descendants(h, root),
              LAMBDA n : h[n].nodeType = ELEMENT_NODE /\ h[n].nodeName = tag)

\* elements.forEach(el => el.remove())
RECURSIVE RemoveEach(_, _)
RemoveEach(h, elements) ==
    IF elements = <<>> THEN h
    ELSE RemoveEach(Remove(h, Head(elements)), Tail(elements))

\* tagsToRemove.forEach(tag => ...)
RECURSIVE RemoveTags(_, _, _)
RemoveTags(h, root, tags) ==
    IF tags = <<>> THEN h
    ELSE RemoveTags(RemoveEach(h, QuerySelectorAll(h, root, Head(tags))), root, Tail(tags))

\* Index loop over the live el.attributes: a removal shifts the next attribute
\* into the current slot and the loop steps over it.
RECURSIVE FilterLive(_, _)
FilterLive(attrs, i) ==
    IF i > Len(attrs) THEN attrs
    ELSE IF attrs[i].name \in Range(allowedAttributes)
         THEN FilterLive(attrs, i + 1)
         ELSE FilterLive(RemoveAt(attrs, i), i + 1)

FilterAttributesLive(attrs) == FilterLive(attrs, 1)

\* for (const attr of Array.from(el.attributes)) if (!allowed) el.removeAttribute(attr.name)
RECURSIVE RemoveAttributes(_, _)
RemoveAttributes(attrs, snapshot) ==
    IF snapshot = <<>> THEN attrs
    ELSE LET name == Head(snapshot).name
             kept == IF name \in Range(allowedAttributes)
                     THEN attrs
                     ELSE SelectSeq(attrs, LAMBDA a : a.name # name)
         IN  RemoveAttributes(kept, Tail(snapshot))

FilterAttributes(attrs) == RemoveAttributes(attrs, attrs)

RECURSIVE CleanElement(_, _)
RECURSIVE WhileChild(_, _, _)
RECURSIVE WhileChildStale(_, _, _)

\* an iteration that also removes an element child left without children
VisitChildDropEmpty(h, el, child) ==
    IF h[child].nodeType = ELEMENT_NODE
    THEN LET h2 == CleanElement(h, child)
         IN  IF h2[child].childNodes = <<>> THEN RemoveChild(h2, el, child) ELSE h2
    ELSE IF h[child].nodeType = TEXT_NODE
         THEN IF Trim(h[child].nodeValue) = "" THEN RemoveChild(h, el, child) ELSE h
         ELSE RemoveChild(h, el, child)

\* one iteration of the while loop: the child is cleaned, removed or kept
VisitChild(h, el, child) ==
    IF h[child].nodeType = ELEMENT_NODE THEN CleanElement(h, child)
    ELSE IF h[child].nodeType = TEXT_NODE
         THEN IF Trim(h[child].nodeValue) = "" THEN RemoveChild(h, el, child) ELSE h
         ELSE RemoveChild(h, el, child)

\* the loop with `child = child.nextSibling` read after the removal: a removed
\* child has no next sibling, and the loop ends there
WhileChildStale(h, el, child) ==
    IF child = Null THEN h
    ELSE LET h2 == VisitChild(h, el, child)
         IN  WhileChildStale(h2, el, NextSibling(h2, child))

\* while (child) { const next = child.nextSibling; ...; child = next; }
WhileChild(h, el, child) ==
    IF child = Null THEN h
    ELSE LET next == NextSibling(h, child)
         IN  WhileChild(VisitChild(h, el, child), el, next)

CleanElement(h, el) ==
    LET h1 == IF h[el].nodeType = ELEMENT_NODE
              THEN [h EXCEPT ![el].attributes = FilterAttributes(@)]
              ELSE h
    IN  WhileChild(h1, el, FirstChild(h1, el))

\* --------------------------------------------------------- innerHTML
VoidElements ==
    {"area", "base", "br", "col", "embed", "hr", "img", "input", "link", "meta",
     "source", "track", "wbr"}

\* elements whose text children are serialized verbatim
RawTextElements == {"style", "script", "xmp", "iframe", "noembed", "noframes", "plaintext"}

EscapeChar(c, attributeMode) ==
    IF c = "&" THEN "&amp;"
    ELSE IF attributeMode /\ c = "\"" THEN "&quot;"
    ELSE IF ~attributeMode /\ c = "<" THEN "&lt;"
    ELSE IF ~attributeMode /\ c = ">" THEN "&gt;"
    ELSE c

\* escaping a string: unchanged when no character needs it, else by halves, so
\* that long text does not nest deeply
RECURSIVE EscapeString(_, _)
EscapeString(s, attributeMode) ==
    IF \A i \in 1..Len(s) : EscapeChar(CharAt(s, i), attributeMode) = CharAt(s, i) THEN s
    ELSE IF Len(s) = 1 THEN EscapeChar(s, attributeMode)
    ELSE LET m == Len(s) \div 2
         IN  EscapeString(SubSeq(s, 1, m), attributeMode)
                 \o EscapeString(SubSeq(s, m + 1, Len(s)), attributeMode)

RECURSIVE SerializeAttributes(_)
SerializeAttributes(attrs) ==
    IF attrs = <<>> THEN ""
    ELSE " " \o Head(attrs).name \o "=\"" \o EscapeString(Head(attrs).value, TRUE) \o "\""
             \o SerializeAttributes(Tail(attrs))

RECURSIVE SerializeChildren(_, _, _)

SerializeNode(h, n, parentName) ==
    IF h[n].nodeType = ELEMENT_NODE
    THEN "<" \o h[n].nodeName \o SerializeAttributes(h[n].attributes) \o ">"
             \o (IF h[n].nodeName \in VoidElements THEN ""
                 ELSE SerializeChildren(h, h[n].childNodes, h[n].nodeName)
                          \o "</" \o h[n].nodeName \o ">")
    ELSE IF h[n].nodeType = TEXT_NODE
         THEN IF parentName \in RawTextElements THEN h[n].nodeValue
              ELSE EscapeString(h[n].nodeValue, FALSE)
         ELSE "<!--" \o h[n].nodeValue \o "-->"

SerializeChildren(h, kids, parentName) ==
    IF kids = <<>> THEN ""
    ELSE SerializeNode(h, Head(kids), parentName) \o SerializeChildren(h, Tail(kids), parentName)

\* element.innerHTML
InnerHTML(h, n) == SerializeChildren(h, h[n].childNodes, h[n].nodeName)

\* element.outerHTML
OuterHTML(h, n) == SerializeNode(h, n, "")

\* the Eliminator, the Attribute Filter and the Pruner, applied to the tree at root
Reduce(h, root) == CleanElement(RemoveTags(h, root, tagsToRemove), root)

\* simplifyDOM(): the heap after the call, the clone it worked on, the string returned
SimplifyDOM(h) ==
    LET c == CloneNode(h, body)
        cleaned == Reduce(c.heap, c.node)
    IN  [heap |-> cleaned, clone |-> c.node, html |-> InnerHTML(cleaned, c.node)]

\* --------------------------------------------------------- documents
\* The page's body carries one allowed and one disallowed attribute.
BodyElement(kids) == Element("body", <<Attr("class", "b"), Attr("onload", "f()")>>, kids)

\* The nodes a document is built from (their children are filled in by BuildDoc).
NodeTemplates ==
    { Element("p", <<Attr("class", "a"), Attr("style", "c"), Attr("onclick", "f()")>>, <<>>),
      Element("script", <<Attr("type", "t"), Attr("src", "s")>>, <<>>),
      Element("svg", <<>>, <<>>),
      Text("1<2"),
      Text(" \n"),
      Comment("c") }

\* node j and its ancestors, 0 being the body; p[i] is the parent of node i
RECURSIVE Chain(_, _)
Chain(p, j) == IF j = 0 THEN {0} ELSE {j} \cup Chain(p, p[j])

\* parent vectors that number the nodes in document order
Shapes(n) ==
    {p \in [1..n -> 0..(n - 1)] :
        \A i \in 1..n : IF i = 1 THEN p[i] = 0 ELSE p[i] \in Chain(p, i - 1)}

\* the children of node j, as heap indexes (node i lives at index i + 1)
KidsOf(p, n, j) ==
    LET ks == SelectSeq([k \in 1..n |-> k], LAMBDA k : p[k] = j)
    IN  [i \in 1..Len(ks) |-> ks[i] + 1]

BuildDoc(p, l, n) ==
    [i \in 1..(n + 1) |->
        IF i = 1 THEN BodyElement(KidsOf(p, n, 0))
        ELSE [l[i - 1] EXCEPT !.childNodes = KidsOf(p, n, i - 1)]]

\* every document of n nodes below the body; only elements have children
DocsOfSize(n) ==
    {BuildDoc(p, l, n) : <<p, l>> \in
        {x \in Shapes(n) \X [1..n -> NodeTemplates] :
            \A i \in 1..n : x[1][i] # 0 => x[2][x[1][i]].nodeType = ELEMENT_NODE}}

SmallDocs == UNION {DocsOfSize(n) : n \in 0..MaxNodes}

\* <div><script>x=1</script><p class="a" style="color:red">Hi</p><!--c--><span>   </span></div>
ExampleDoc ==
    << BodyElement(<<2>>),
       Element("div", <<>>, <<3, 5, 7, 8>>),
       Element("script", <<>>, <<4>>),
       Text("x=1"),
       Element("p", <<Attr("class", "a"), Attr("style", "color:red")>>, <<6>>),
       Text("Hi"),
       Comment("c"),
       Element("span", <<>>, <<9>>),
       Text("   ") >>

\* <p>xxx...x</p> with n characters of text: n + 7 characters of markup
LongDoc(n) == << BodyElement(<<2>>), Element("p", <<>>, <<3>>), Text(Repeat("x", n)) >>

LongDocs == {LongDoc(n) : n \in (MAX - 7 - LongSlack)..(MAX + LongSlack)}

Documents == SmallDocs \cup {ExampleDoc} \cup LongDocs

\* about:blank, the page before navigation
BlankPage == << Element("body", <<>>, <<>>) >>

\* --------------------------------------------------------- selectors
Letters ==
    {"a", "b", "c", "d", "e", "f", "g", "h", "i", "j", "k", "l", "m",
     "n", "o", "p", "q", "r", "s", "t", "u", "v", "w", "x", "y", "z"}

IsName(s) == Len(s) > 0 /\ \A i \in 1..Len(s) : CharAt(s, i) \in Letters

\* the selectors the page can evaluate are tag names; any other string makes the query throw
WellFormed(sel) == IsName(sel)

\* page.locator(selector): the matching elements of the document, in document order
Locator(h, sel) ==
    SelectSeq(<<body>> \o Descendants(h, body),
              LAMBDA n : h[n].nodeType = ELEMENT_NODE /\ h[n].nodeName = sel)

\* taking the last match instead of the first
Last(matches) == matches[Len(matches)]

\* locator.first()
First(matches) == matches[1]

\* what the model may answer (completion.choices[0].message.content)
Replies == {" p\n", "script", "div >"}

\* `${value}` of a returned value: <<>> is undefined
Interpolate(v) == IF v = <<>> THEN "undefined" ELSE v[1]

\* ------------------------------------------------------------- state
VARIABLES
    site,            \* the document the url serves
    dom,             \* the page's heap: the live document, then also the clone
    clone,           \* simplifyDOM's `clone`, Null before the call
    pc,              \* the statement getElementSelector (then the IIFE) is at
    browser,         \* "none", "open" or "closed"
    closeCalls,      \* how many times browser.close() ran
    simplifiedHTML,
    truncatedHTML,
    selector,
    count,           \* the locator's count, -1 before it is known
    highlightCalls,  \* the nodes highlight() was called on, in order
    console,         \* the console's lines
    thrown,          \* the call that threw, "none" when none did
    settled,         \* the promise of getElementSelector
    retval           \* <<v>> once `return v` ran, <<>> for undefined

vars == <<site, dom, clone, pc, browser, closeCalls, simplifiedHTML, truncatedHTML,
          selector, count, highlightCalls, console, thrown, settled, retval>>

Line(level, text) == [level |-> level, text |-> text]

Init ==
    /\ site \in Documents
    /\ dom = BlankPage
    /\ clone = Null
    /\ pc = "launch"
    /\ browser = "none"
    /\ closeCalls = 0
    /\ simplifiedHTML = ""
    /\ truncatedHTML = ""
    /\ selector = ""
    /\ count = -1
    /\ highlightCalls = <<>>
    /\ console = <<>>
    /\ thrown = "none"
    /\ settled = "pending"
    /\ retval = <<>>

\* an awaited call inside the try block rejects: control goes to the catch clause
Throw(call) ==
    /\ thrown' = call
    /\ pc' = "catch"

\* an awaited call before the try block rejects: the promise rejects, nothing else runs
Reject(call) ==
    /\ thrown' = call
    /\ settled' = "rejected"
    /\ pc' = "done"

\* const browser = await chromium.launch(...)
Launch ==
    /\ pc = "launch"
    /\ \/ /\ browser' = "open"
          /\ pc' = "newPage"
          /\ UNCHANGED <<thrown, settled>>
       \/ /\ Reject("launch")
          /\ UNCHANGED browser
    /\ console' = Append(console, Line("log", "launching"))
    /\ UNCHANGED <<site, dom, clone, closeCalls, simplifiedHTML, truncatedHTML, selector,
                   count, highlightCalls, retval>>

\* const page = await browser.newPage()
NewPage ==
    /\ pc = "newPage"
    /\ \/ /\ pc' = "goto"
          /\ UNCHANGED <<thrown, settled>>
       \/ Reject("newPage")
    /\ UNCHANGED <<site, dom, clone, browser, closeCalls, simplifiedHTML, truncatedHTML,
                   selector, count, highlightCalls, console, retval>>

\* await page.goto(url, ...)
Goto ==
    /\ pc = "goto"
    /\ \/ /\ dom' = site
          /\ pc' = "waitLoad"
          /\ UNCHANGED thrown
       \/ /\ Throw("goto")
          /\ UNCHANGED dom
    /\ UNCHANGED <<site, clone, browser, closeCalls, simplifiedHTML, truncatedHTML, selector,
                   count, highlightCalls, console, settled, retval>>

\* await page.waitForTimeout(2000)
WaitLoad ==
    /\ pc = "waitLoad"
    /\ \/ /\ pc' = "evaluate"
          /\ UNCHANGED <<thrown, console>>
       \/ /\ Throw("waitForTimeout")
          /\ UNCHANGED console
    /\ UNCHANGED <<site, dom, clone, browser, closeCalls, simplifiedHTML, truncatedHTML,
                   selector, count, highlightCalls, settled, retval>>

\* const simplifiedHTML = await page.evaluate(simplifyDOM)
Evaluate ==
    /\ pc = "evaluate"
    /\ \/ LET r == SimplifyDOM(dom)
          IN  /\ dom' = r.heap
              /\ clone' = r.clone
              /\ simplifiedHTML' = r.html
              /\ pc' = "truncate"
              /\ UNCHANGED thrown
       \/ /\ Throw("evaluate")
          /\ UNCHANGED <<dom, clone, simplifiedHTML>>
    /\ UNCHANGED <<site, browser, closeCalls, truncatedHTML, selector, count, highlightCalls,
                   console, settled, retval>>

\* const truncatedHTML = simplifiedHTML.slice(0, 15000); the prompt embeds it
Truncate ==
    /\ pc = "truncate"
    /\ truncatedHTML' = Slice(simplifiedHTML, 0, MAX)
    /\ pc' = "create"
    /\ UNCHANGED <<site, dom, clone, browser, closeCalls, simplifiedHTML, selector, count,
                   highlightCalls, console, thrown, settled, retval>>

\* const completion = await openai.chat.completions.create(...); selector = content.trim()
Create ==
    /\ pc = "create"
    /\ \/ \E content \in Replies :
             /\ selector' = Trim(content)
             /\ console' = Append(console, Line("log", "selector: " \o Trim(content)))
             /\ pc' = "count"
             /\ UNCHANGED thrown
       \/ /\ Throw("create")
          /\ UNCHANGED <<selector, console>>
    /\ UNCHANGED <<site, dom, clone, browser, closeCalls, simplifiedHTML, truncatedHTML, count,
                   highlightCalls, settled, retval>>

\* const count = await page.locator(selector).count(); if (count > 0) ... else console.warn
Count ==
    /\ pc = "count"
    /\ \/ /\ ~WellFormed(selector)
          /\ Throw("count")
          /\ UNCHANGED <<count, console>>
       \/ /\ WellFormed(selector)
          /\ count' = Len(Locator(dom, selector))
          /\ IF count' > 0
             THEN /\ console' = Append(console, Line("log", "found"))
                  /\ pc' = "highlight"
             ELSE /\ console' = Append(console, Line("warn", "not found: " \o selector))
                  /\ pc' = "return"
          /\ UNCHANGED thrown
    /\ UNCHANGED <<site, dom, clone, browser, closeCalls, simplifiedHTML, truncatedHTML,
                   selector, highlightCalls, settled, retval>>

\* await page.locator(selector).first().highlight()
Highlight ==
    /\ pc = "highlight"
    /\ highlightCalls' = Append(highlightCalls, First(Locator(dom, selector)))
    /\ \/ /\ pc' = "waitShow"
          /\ UNCHANGED thrown
       \/ Throw("highlight")
    /\ UNCHANGED <<site, dom, clone, browser, closeCalls, simplifiedHTML, truncatedHTML,
                   selector, count, console, settled, retval>>

\* await page.waitForTimeout(3000)
WaitShow ==
    /\ pc = "waitShow"
    /\ \/ /\ pc' = "return"
          /\ UNCHANGED thrown
       \/ Throw("waitForTimeout")
    /\ UNCHANGED <<site, dom, clone, browser, closeCalls, simplifiedHTML, truncatedHTML,
                   selector, count, highlightCalls, console, settled, retval>>

\* return selector
Return ==
    /\ pc = "return"
    /\ retval' = <<selector>>
    /\ pc' = "finally"
    /\ UNCHANGED <<site, dom, clone, browser, closeCalls, simplifiedHTML, truncatedHTML,
                   selector, count, highlightCalls, console, thrown, settled>>

\* catch (error) { console.error(...) }: the error is logged and not thrown again
Catch ==
    /\ pc = "catch"
    /\ console' = Append(console, Line("error", thrown))
    /\ pc' = "finally"
    /\ UNCHANGED <<site, dom, clone, browser, closeCalls, simplifiedHTML, truncatedHTML,
                   selector, count, highlightCalls, thrown, settled, retval>>

\* finally { await browser.close() }: then the promise fulfils with the returned value
Finally ==
    /\ pc = "finally"
    /\ browser' = "closed"
    /\ closeCalls' = closeCalls + 1
    /\ settled' = "fulfilled"
    /\ pc' = "main"
    /\ UNCHANGED <<site, dom, clone, simplifiedHTML, truncatedHTML, selector, count,
                   highlightCalls, console, thrown, retval>>

\* the IIFE after its await: console.log of the final result
MainLog ==
    /\ pc = "main"
    /\ console' = Append(console, Line("log", "result: " \o Interpolate(retval)))
    /\ pc' = "done"
    /\ UNCHANGED <<site, dom, clone, browser, closeCalls, simplifiedHTML, truncatedHTML,
                   selector, count, highlightCalls, thrown, settled, retval>>

Next ==
    \/ Launch \/ NewPage \/ Goto \/ WaitLoad \/ Evaluate \/ Truncate \/ Create
    \/ Count \/ Highlight \/ WaitShow \/ Return \/ Catch \/ Finally \/ MainLog

Spec == Init /\ [][Next]_vars

\* ------------------------------------------------------------ claims
\* simplifyDOM has run: the cleaned tree is the one rooted at `clone`
Reduced == clone # Null

\* the nodes of the cleaned tree, the root included
CleanedNodes == Range(<<clone>> \o Descendants(dom, clone))

\* the nodes of the served document
SiteNodes == Range(<<body>> \o Descendants(site, body))

\* the live node a node of the clone was copied from
Original(k) == k - Len(site)

Excluded(node) == node.nodeType = ELEMENT_NODE /\ node.nodeName \in Range(tagsToRemove)

IsBlank(s) == \A i \in 1..Len(s) : CharAt(s, i) \in WhiteSpace

\* node n of the served document is an excluded element or lies inside one
RECURSIVE InExcludedSubtree(_)
InExcludedSubtree(n) ==
    \/ Excluded(site[n])
    \/ ParentNode(site, n) # Null /\ InExcludedSubtree(ParentNode(site, n))

\* C1: after the reduction the cleaned tree holds no element, at any depth, whose
\* tag is in the exclusion set.
ExclusionCompleteness ==
    Reduced => \A n \in CleanedNodes : ~Excluded(dom[n])

\* an excluded element nested inside another excluded element was served and reduced
ExclusionWitness ==
    /\ Reduced
    /\ \E n \in SiteNodes :
          /\ Excluded(site[n])
          /\ ParentNode(site, n) # Null
          /\ Excluded(site[ParentNode(site, n)])
          /\ site[n].nodeName # site[ParentNode(site, n)].nodeName

\* C2: every element of the cleaned tree carries only allow-listed attributes, and
\* exactly the allow-listed attributes of the element it was copied from, values kept.
AttributeClosure ==
    Reduced =>
        \A n \in CleanedNodes :
            dom[n].nodeType = ELEMENT_NODE =>
                /\ \A i \in 1..Len(dom[n].attributes) :
                      dom[n].attributes[i].name \in Range(allowedAttributes)
                /\ dom[n].attributes =
                      SelectSeq(site[Original(n)].attributes,
                                LAMBDA a : a.name \in Range(allowedAttributes))

\* a surviving element below the root was served with allowed and disallowed attributes
AttributeWitness ==
    /\ Reduced
    /\ \E n \in CleanedNodes :
          /\ ParentNode(dom, n) \notin {Null, clone}
          /\ dom[n].attributes # <<>>
          /\ Len(site[Original(n)].attributes) > Len(dom[n].attributes)

\* C3: the cleaned tree holds no node other than elements and text, and no text
\* that is blank once trimmed.
NoStrayNodes ==
    Reduced =>
        \A n \in CleanedNodes :
            /\ dom[n].nodeType \in {ELEMENT_NODE, TEXT_NODE}
            /\ dom[n].nodeType = TEXT_NODE => ~IsBlank(dom[n].nodeValue)

\* a surviving element below the root was served with a comment and a blank text child
StrayWitness ==
    /\ Reduced
    /\ \E n \in CleanedNodes :
          /\ n # clone
          /\ \E c \in Range(site[Original(n)].childNodes) : site[c].nodeType = COMMENT_NODE
          /\ \E c \in Range(site[Original(n)].childNodes) :
                site[c].nodeType = TEXT_NODE /\ IsBlank(site[c].nodeValue)

\* C4: the reduction leaves the live tree as it was served: same nodes, child order,
\* attributes and text; the clone is a tree of its own.
NonMutation ==
    Reduced =>
        /\ SubSeq(dom, 1, Len(site)) = site
        /\ OuterHTML(dom, body) = OuterHTML(site, body)
        /\ CleanedNodes \cap SiteNodes = {}

\* the reduction removed nodes and attributes, and the run is over
NonMutationWitness ==
    /\ pc = "done"
    /\ Reduced
    /\ Len(simplifiedHTML) < Len(InnerHTML(site, body))
    /\ dom[clone].attributes # site[body].attributes

\* C5: reducing the cleaned tree again changes nothing.
Idempotence ==
    Reduced =>
        LET again == Reduce(dom, clone)
        IN  /\ again = dom
            /\ InnerHTML(again, clone) = simplifiedHTML

\* the first reduction did change the tree it was given
IdempotenceWitness ==
    /\ Reduced
    /\ simplifiedHTML # InnerHTML(site, body)
    /\ Cardinality(CleanedNodes) < Cardinality(SiteNodes)

\* C6 (as amended): the example reduces to <div><p class="a">Hi</p><span></span></div>:
\* the span whose only content is blank text is emptied and kept; in every document,
\* each element outside the excluded subtrees has its copy in the cleaned tree.
ExampleKeepsEmptySpan ==
    Reduced =>
        /\ site = ExampleDoc =>
              simplifiedHTML = "<div><p class=\"a\">Hi</p><span></span></div>"
        /\ \A n \in SiteNodes :
              (site[n].nodeType = ELEMENT_NODE /\ ~InExcludedSubtree(n))
                  => (n + Len(site)) \in CleanedNodes

\* C6 (as claimed): the example reduces to <div><p class="a">Hi</p></div>, the
\* whitespace-only span being removed.
ExampleSpanRemoved ==
    (Reduced /\ site = ExampleDoc) => simplifiedHTML = "<div><p class=\"a\">Hi</p></div>"

\* the example document was served and reduced
ExampleWitness ==
    /\ site = ExampleDoc
    /\ pc = "truncate"
    /\ simplifiedHTML # ""

\* the first match in document order: no other match precedes it
FirstInDocumentOrder(h, sel) ==
    LET order == <<body>> \o Descendants(h, body)
        matches == {n \in Range(order) : h[n].nodeType = ELEMENT_NODE /\ h[n].nodeName = sel}
    IN  CHOOSE n \in matches : \A m \in matches : IndexOf(order, n) <= IndexOf(order, m)

Warned == \E i \in 1..Len(console) : console[i].level = "warn"

\* highlight is called if and only if the count is positive, and then once, on the
\* first match in document order; a zero count warns instead
HighlightRule ==
    /\ count = -1 => highlightCalls = <<>> /\ ~Warned
    /\ count = 0 => highlightCalls = <<>> /\ Warned
    /\ count > 0 =>
          /\ ~Warned
          /\ IF pc = "highlight" THEN highlightCalls = <<>>
             ELSE highlightCalls = <<FirstInDocumentOrder(site, selector)>>

MalformedLocatorIsFatal ==
    (pc = "done" /\ thrown = "count" /\ ~WellFormed(selector)) =>
        /\ settled = "rejected"
        /\ highlightCalls = <<>>

\* C9: once the browser was launched, on every path that ends, browser.close ran
\* exactly once.
TeardownOnEveryPath ==
    (pc = "done" /\ browser # "none") => (closeCalls = 1 /\ browser = "closed")

\* C10: the string passed on is at most MAX characters long and is the first MAX
\* characters of the serialized markup (all of it when it is no longer than MAX).
TruncationBound ==
    pc # "truncate" =>
        /\ Len(truncatedHTML) <= MAX
        /\ Len(truncatedHTML) = Min(Len(simplifiedHTML), MAX)
        /\ \A i \in 1..Len(truncatedHTML) : CharAt(truncatedHTML, i) = CharAt(simplifiedHTML, i)

\* markup longer than MAX was truncated, the cut falling inside the closing tag
TruncationWitness ==
    /\ pc = "create"
    /\ Len(simplifiedHTML) > MAX
    /\ Len(truncatedHTML) = MAX
    /\ CharAt(truncatedHTML, MAX) = "<"

====
